---- MODULE Spec2Model ----
(***************************************************************************)
(* Workspace (src/Extension/src/LanguageServer/workspace.ts): the registry *)
(* that routes every document to the WorkspaceFolder ("Session") owning    *)
(* it, creates WorkspaceFolders lazily, and moves tracked documents when   *)
(* folders are removed or a WorkspaceFolder is replaced after a crash.     *)
(*                                                                         *)
(* A URI is a sequence of path segments.  A WorkspaceFolder object is an   *)
(* index into the sequence `sessions` (object identity = index);           *)
(* Undefined stands for JavaScript's undefined/null.                       *)
(***************************************************************************)
EXTENDS Naturals, Sequences, FiniteSets

VARIABLES
    vsFolders,               \* vscode.workspace.workspaceFolders (the editor's open folders)
    opened,                  \* documents the editor has opened (it fires one open per document)
    workspaceFolders,        \* Workspace.workspaceFolders: Map<string, WorkspaceFolder>
    externalWorkspaceFolder, \* Workspace.externalWorkspaceFolder
    activeWorkspaceFolder,   \* Workspace.activeWorkspaceFolder
    activeDocument,          \* Workspace.activeDocument
    sessions,                \* every WorkspaceFolder object ever created, by identity
    disposeCalled,           \* Workspace.dispose() has run
    disposeResolved,         \* the Thenable that Workspace.dispose() returned has resolved
    handedOver               \* the takeOwnership calls made by the event processed last

vars == <<vsFolders, opened, workspaceFolders, externalWorkspaceFolder,
          activeWorkspaceFolder, activeDocument, sessions, disposeCalled,
          disposeResolved, handedOver>>

-----------------------------------------------------------------------------
(* Bounds of the model *)

\* WorkspaceFolder objects created in one run (constructor, lazy creation, placeholders)
MaxSessions == 3

-----------------------------------------------------------------------------
(* The editor's world: folders and documents *)

Undefined == 0
NoUri == << >>

FolderA == <<"a">>
FolderASub == <<"a", "sub">>
Folders == {FolderA, FolderASub}

DocA == <<"a", "m.cpp">>
DocASub == <<"a", "sub", "n.cpp">>
Documents == {DocA, DocASub}

Uris == Folders \cup Documents

\* document.languageId
languageId(document) == IF document \in Documents THEN "cpp" ELSE "plaintext"

IsPrefix(p, u) == Len(p) <= Len(u) /\ SubSeq(u, 1, Len(p)) = p

\* vscode.workspace.getWorkspaceFolder(uri): the innermost open folder that
\* contains uri (a folder's own uri yields that folder), NoUri when none does.
getWorkspaceFolder(vs, uri) ==
    LET c == {f \in vs : IsPrefix(f, uri)}
    IN  IF c = {} THEN NoUri
        ELSE CHOOSE f \in c : \A g \in c : Len(g) <= Len(f)

rootWorkspaceFolderKey == <<"@@workspace@@">>

\* util.asFolder(uri): the uri as a string ending in '/'
asFolder(uri) == IF uri[Len(uri)] = "/" THEN uri ELSE Append(uri, "/")

-----------------------------------------------------------------------------
(* Sequences and maps *)

SeqToSet(s) == {s[i] : i \in 1..Len(s)}

\* Set.add on an insertion-ordered Set
SetAdd(s, x) == IF x \in SeqToSet(s) THEN s ELSE Append(s, x)

MapSet(m, k, v) == [x \in (DOMAIN m) \cup {k} |-> IF x = k THEN v ELSE m[x]]
MapDelete(m, k) == [x \in (DOMAIN m) \ {k} |-> m[x]]
MapHas(m, k) == k \in DOMAIN m
MapGet(m, k) == IF k \in DOMAIN m THEN m[k] ELSE Undefined
EmptyMap == [x \in {} |-> Undefined]

\* all orderings of a finite set, as sequences without repetition
RECURSIVE Orderings(_)
Orderings(S) ==
    IF S = {} THEN {<< >>}
    ELSE UNION {{<<x>> \o t : t \in Orderings(S \ {x})} : x \in S}

-----------------------------------------------------------------------------
(* WorkspaceFolder objects (the Session surface) *)

\* new WorkspaceFolder(...): RootUri, the tracked documents in insertion order,
\* and what has been called on it so far.
NewSession(rootUri, kind) ==
    [RootUri |-> rootUri, kind |-> kind, TrackedDocuments |-> << >>,
     activated |-> FALSE, offered |-> FALSE, disposed |-> 0]

\* The state a handler works on: the Workspace's fields, the objects, the
\* calls made so far, and whether the handler has thrown.
Call(m, s, d) == [m |-> m, s |-> s, d |-> d]
Log(w, m, s, d) == [w EXCEPT !.log = Append(@, Call(m, s, d))]

\* a TypeError: a member of undefined was read.  The handler stops there: every
\* later step of it leaves the state as it is.
Throw(w) == [w EXCEPT !.threw = TRUE]

\* cpptools.createWorkspaceFolder(this, folder?)
createWorkspaceFolder(w, rootUri) ==
    [w EXCEPT !.ss = Append(@, NewSession(rootUri, "client"))]

\* cpptools.createNullWorkspaceFolder(): tracks nothing, ignores every notification
createNullWorkspaceFolder(w) ==
    [w EXCEPT !.ss = Append(@, NewSession(NoUri, "null"))]

\* WorkspaceFolder.TrackedDocuments
TrackedDocuments(w, s) == w.ss[s].TrackedDocuments

\* TrackedDocuments.add(document) by the WorkspaceFolder itself
Track(w, s, document) ==
    IF w.ss[s].kind = "null" THEN w
    ELSE [w EXCEPT !.ss[s].TrackedDocuments = SetAdd(@, document)]

\* WorkspaceFolder.takeOwnership(document): adopt the document as if freshly opened
takeOwnership(w, s, document) == Track(Log(w, "takeOwnership", s, document), s, document)

\* a transfer that forgets to clear the old owner's tracked set
ClearTrackedForgotten(w, s) == w

\* WorkspaceFolder.TrackedDocuments.clear()
ClearTracked(w, s) ==
    IF w.threw THEN w ELSE [w EXCEPT !.ss[s].TrackedDocuments = << >>]

\* WorkspaceFolder.activate()
activate(w, s) ==
    IF w.ss[s].kind = "null" THEN Log(w, "activate", s, NoUri)
    ELSE [Log(w, "activate", s, NoUri) EXCEPT !.ss[s].activated = TRUE]

\* WorkspaceFolder.deactivate()
deactivate(w, s) ==
    IF w.ss[s].kind = "null" THEN Log(w, "deactivate", s, NoUri)
    ELSE [Log(w, "deactivate", s, NoUri) EXCEPT !.ss[s].activated = FALSE]

\* WorkspaceFolder.activeDocumentChanged(document)
notifyActiveDocumentChanged(w, s, document) == Log(w, "activeDocumentChanged", s, document)

\* newWorkspaceFolder.onRegisterCustomConfigurationProvider(provider), for every
\* provider; newWorkspaceFolder is the object created last
offerProviders(w) ==
    [Log(w, "onRegisterCustomConfigurationProvider", Len(w.ss), NoUri)
        EXCEPT !.ss[Len(w.ss)].offered = TRUE]

\* WorkspaceFolder.dispose()
disposeSession(w, s) ==
    IF w.threw THEN w ELSE [Log(w, "dispose", s, NoUri) EXCEPT !.ss[s].disposed = @ + 1]

-----------------------------------------------------------------------------
(* Workspace *)

\* The Workspace as the handlers see it
This ==
    [wf |-> workspaceFolders, ext |-> externalWorkspaceFolder,
     act |-> activeWorkspaceFolder, adoc |-> activeDocument,
     ss |-> sessions, vs |-> vsFolders, log |-> << >>, threw |-> FALSE, ret |-> Undefined]

Return(w, v) == IF w.threw THEN w ELSE [w EXCEPT !.ret = v]

\* return this.workspaceFolders.get(key)
ReturnGet(w, key) == Return(w, MapGet(w.wf, key))

\* this.workspaceFolders.set(key, <the object created last>)
SetNew(w, key) == [w EXCEPT !.wf = MapSet(@, key, Len(w.ss))]

\* an entry that is left in the registry when it should be deleted
DeleteForgotten(w, key) == w

\* this.workspaceFolders.delete(key)
Delete(w, key) == [w EXCEPT !.wf = MapDelete(@, key)]

\* a resolution that does not look the key up before it creates a WorkspaceFolder
getWorkspaceFolderForAlwaysNew(w, uri) ==
    LET folder == getWorkspaceFolder(w.vs, uri)
    IN  IF folder = NoUri THEN Return(w, w.ext)
        ELSE ReturnGet(offerProviders(SetNew(createWorkspaceFolder(w, folder),
                                             asFolder(folder))),
                       asFolder(folder))

\* Workspace.getWorkspaceFolderFor(uri); the WorkspaceFolder is in .ret
getWorkspaceFolderFor(w, uri) ==
    LET folder == getWorkspaceFolder(w.vs, uri)
    IN  IF folder = NoUri THEN Return(w, w.ext)
        ELSE IF ~MapHas(w.wf, asFolder(folder))
             THEN ReturnGet(offerProviders(SetNew(createWorkspaceFolder(w, folder),
                                                  asFolder(folder))),
                            asFolder(folder))
             ELSE ReturnGet(w, asFolder(folder))

\* JavaScript's a || b and a && b on the values "true", "false" and "undefined"
Or(a, b) == IF a = "true" THEN a ELSE b
And(a, b) == IF a = "true" THEN b ELSE a
Bool(b) == IF b THEN "true" ELSE "false"

\* vsWorkspaceFolder as an operand of && and !: an object is truthy
Truthy(folder) == IF folder = NoUri THEN "undefined" ELSE "true"

\* an ownership check that takes every document for a rootless WorkspaceFolder's
checkOwnershipRootless(w, workspaceFolder, document) ==
    Return(w, Or(Bool(w.ss[workspaceFolder].RootUri = NoUri),
                 And(Truthy(getWorkspaceFolder(w.vs, document)),
                     Bool(w.ss[workspaceFolder].RootUri
                              = getWorkspaceFolder(w.vs, document)))))

\* Workspace.checkOwnership(workspaceFolder, document); the result is in .ret
checkOwnership(w, workspaceFolder, document) ==
    Return(w, Or(Bool(w.ss[workspaceFolder].RootUri = NoUri
                          /\ getWorkspaceFolder(w.vs, document) = NoUri),
                 And(Truthy(getWorkspaceFolder(w.vs, document)),
                     Bool(w.ss[workspaceFolder].RootUri
                              = getWorkspaceFolder(w.vs, document)))))

\* newOwner.takeOwnership(document), newOwner being what getWorkspaceFolderFor returned
adopt(r, document) ==
    IF r.ret = Undefined THEN Throw(r) ELSE takeOwnership(r, r.ret, document)

\* Workspace.transferOwnership(document, oldOwner)
transferOwnership(w, document, oldOwner) ==
    adopt(getWorkspaceFolderFor(w, document), document)

\* oldOwner.TrackedDocuments.forEach(document => this.transferOwnership(document, oldOwner))
RECURSIVE transferAll(_, _, _)
transferAll(w, docs, oldOwner) ==
    IF docs = << >> \/ w.threw THEN w
    ELSE transferAll(transferOwnership(w, Head(docs), oldOwner), Tail(docs), oldOwner)

\* this.activeWorkspaceFolder = <what getWorkspaceFolderFor returned>;
\* this.activeWorkspaceFolder.activeDocumentChanged(this.activeDocument)
setActive(r) ==
    IF r.ret = Undefined THEN Throw([r EXCEPT !.act = r.ret])
    ELSE notifyActiveDocumentChanged([r EXCEPT !.act = r.ret], r.ret, r.adoc)

\* if (this.activeWorkspaceFolder === workspaceFolder && this.activeDocument) {...}
recomputeActive(w, workspaceFolder) ==
    IF w.threw THEN w
    ELSE IF w.act = workspaceFolder /\ w.adoc # NoUri
         THEN setActive(getWorkspaceFolderFor(w, w.adoc))
         ELSE w

\* the key under which the registry holds the WorkspaceFolder, NoUri when it holds it nowhere
keyOf(w, workspaceFolder) ==
    IF \E k \in DOMAIN w.wf : w.wf[k] = workspaceFolder
    THEN CHOOSE k \in DOMAIN w.wf : w.wf[k] = workspaceFolder
    ELSE NoUri

\* a replace that creates the placeholder and does not register it
transferOrPlaceholderUnregistered(w, workspaceFolder, transferFileOwnership, key) ==
    IF transferFileOwnership
    THEN ClearTracked(transferAll(w, TrackedDocuments(w, workspaceFolder), workspaceFolder),
                      workspaceFolder)
    ELSE createNullWorkspaceFolder(w)

\* the branches of if (transferFileOwnership) {...} else {...}
transferOrPlaceholder(w, workspaceFolder, transferFileOwnership, key) ==
    IF transferFileOwnership
    THEN ClearTracked(transferAll(w, TrackedDocuments(w, workspaceFolder), workspaceFolder),
                      workspaceFolder)
    ELSE SetNew(createNullWorkspaceFolder(w), key)

\* if (key) {...} of Workspace.replace
replaceAt(w, workspaceFolder, transferFileOwnership, key) ==
    ReturnGet(
        disposeSession(
            recomputeActive(
                transferOrPlaceholder(Delete(w, key), workspaceFolder,
                                      transferFileOwnership, key),
                workspaceFolder),
            workspaceFolder),
        key)

\* a replace that disposes the WorkspaceFolder even when the registry does not hold it
replaceDisposesUnregistered(w, workspaceFolder, transferFileOwnership) ==
    IF keyOf(w, workspaceFolder) # NoUri
    THEN replaceAt(w, workspaceFolder, transferFileOwnership, keyOf(w, workspaceFolder))
    ELSE Return(disposeSession(w, workspaceFolder), Undefined)

\* Workspace.replace(workspaceFolder, transferFileOwnership); the result is in .ret
replace(w, workspaceFolder, transferFileOwnership) ==
    IF keyOf(w, workspaceFolder) # NoUri
    THEN replaceAt(w, workspaceFolder, transferFileOwnership, keyOf(w, workspaceFolder))
    ELSE Return(w, Undefined)

\* if (workspaceFolder) {...} of the removal loop
removeAt(w, path, workspaceFolder) ==
    disposeSession(
        recomputeActive(
            ClearTracked(
                transferAll(Delete(w, path), TrackedDocuments(w, workspaceFolder),
                            workspaceFolder),
                workspaceFolder),
            workspaceFolder),
        workspaceFolder)

\* the body of e.removed.forEach(folder => {...}) for one folder
removeFolder(w, folder) ==
    IF MapGet(w.wf, asFolder(folder)) # Undefined
    THEN removeAt(w, asFolder(folder), MapGet(w.wf, asFolder(folder)))
    ELSE w

RECURSIVE removeAll(_, _)
removeAll(w, removed) ==
    IF removed = << >> \/ w.threw THEN w
    ELSE removeAll(removeFolder(w, Head(removed)), Tail(removed))

\* e.added.forEach(folder => { this.getWorkspaceFolderFor(folder.uri); })
RECURSIVE addAll(_, _)
addAll(w, added) ==
    IF added = << >> \/ w.threw THEN w
    ELSE addAll(getWorkspaceFolderFor(w, Head(added)), Tail(added))

\* Workspace.onDidChangeWorkspaceFolders(e), e = {removed, added}
onDidChangeWorkspaceFolders(w, removed, added) ==
    addAll(removeAll(w, removed), added)

\* Workspace.onDidOpenTextDocument(document)
onDidOpenTextDocument(w, document) ==
    IF languageId(document) = "c" \/ languageId(document) = "cpp"
    THEN getWorkspaceFolderFor(w, document)
    ELSE w

\* the WorkspaceFolder's own reaction to the same open notification: the one
\* the document resolves to starts tracking it
didOpen(w, document) ==
    IF languageId(document) \in {"c", "cpp"} /\ w.ret # Undefined
    THEN Track(w, w.ret, document)
    ELSE w

\* activeWorkspaceFolder.activeDocumentChanged(document), activeWorkspaceFolder
\* being what getWorkspaceFolderFor returned
notifyReturned(r, document) ==
    IF r.ret = Undefined THEN Throw(r)
    ELSE notifyActiveDocumentChanged(r, r.ret, document)

\* this.activeWorkspaceFolder.deactivate(); this.activeWorkspaceFolder = activeWorkspaceFolder
deactivateAndSwitch(w) ==
    IF w.act = Undefined THEN Throw(w)
    ELSE [deactivate(w, w.act) EXCEPT !.act = w.ret]

\* if (activeWorkspaceFolder !== this.activeWorkspaceFolder) {...}
switchActive(w) ==
    IF w.threw THEN w
    ELSE IF w.ret # w.act THEN deactivateAndSwitch(activate(w, w.ret))
         ELSE w

\* Workspace.activeDocumentChanged(document)
activeDocumentChanged(w, document) ==
    switchActive(
        notifyReturned(getWorkspaceFolderFor([w EXCEPT !.adoc = document], document),
                       document))

\* this.workspaceFolders.forEach(workspaceFolder => promises.push(workspaceFolder.dispose()))
RECURSIVE disposeEach(_, _)
disposeEach(w, keys) ==
    IF keys = {} THEN w
    ELSE disposeEach(disposeSession(w, w.wf[CHOOSE k \in keys : TRUE]),
                     keys \ {CHOOSE k \in keys : TRUE})

\* Workspace.dispose()
dispose(w) ==
    [disposeEach([w EXCEPT !.ext = Undefined], DOMAIN w.wf) EXCEPT !.wf = EmptyMap]

\* for (let workspaceFolder of vscode.workspace.workspaceFolders) {...}
RECURSIVE constructFolders(_, _)
constructFolders(w, folders) ==
    IF folders = << >> THEN w
    ELSE constructFolders(SetNew(createWorkspaceFolder(w, Head(folders)),
                                 asFolder(Head(folders))),
                          Tail(folders))

\* the first three statements of the constructor, on the object created last
constructExternal(w) ==
    [w EXCEPT !.ext = Len(w.ss), !.act = Len(w.ss),
              !.wf = MapSet(@, rootWorkspaceFolderKey, Len(w.ss))]

\* Workspace.constructor, with the editor's folders as they are at that time
constructor(folders) ==
    constructFolders(
        constructExternal(
            createWorkspaceFolder(
                [wf |-> EmptyMap, ext |-> Undefined, act |-> Undefined, adoc |-> NoUri,
                 ss |-> << >>, vs |-> SeqToSet(folders), log |-> << >>, threw |-> FALSE,
                 ret |-> Undefined],
                NoUri)),
        folders)

-----------------------------------------------------------------------------
(* The state machine: one step per event the host delivers *)

\* the takeOwnership calls among the calls a handler made
TakeOwnershipCalls(w) == SelectSeq(w.log, LAMBDA c : c.m = "takeOwnership")

\* the handler's effects become the new state
Commit(w) ==
    /\ Len(w.ss) <= MaxSessions
    /\ workspaceFolders' = w.wf
    /\ externalWorkspaceFolder' = w.ext
    /\ activeWorkspaceFolder' = w.act
    /\ activeDocument' = w.adoc
    /\ sessions' = w.ss
    /\ handedOver' = TakeOwnershipCalls(w)

Init ==
    \E initial \in SUBSET Folders :
      \E folders \in Orderings(initial) :
        LET w == constructor(folders)
        IN  /\ vsFolders = initial
            /\ opened = {}
            /\ workspaceFolders = w.wf
            /\ externalWorkspaceFolder = w.ext
            /\ activeWorkspaceFolder = w.act
            /\ activeDocument = w.adoc
            /\ sessions = w.ss
            /\ disposeCalled = FALSE
            /\ disposeResolved = FALSE
            /\ handedOver = << >>

\* the editor opens a document
DidOpenTextDocument ==
    \E document \in Documents \ opened :
        LET w == didOpen(onDidOpenTextDocument(This, document), document)
        IN  /\ Commit(w)
            /\ opened' = opened \cup {document}
            /\ UNCHANGED <<vsFolders, disposeCalled, disposeResolved>>

\* the active editor shows another document
ActiveDocumentChanged ==
    \E document \in opened :
        LET w == activeDocumentChanged(This, document)
        IN  /\ Commit(w)
            /\ UNCHANGED <<vsFolders, opened, disposeCalled, disposeResolved>>

\* the editor changes its folders and then reports what it removed and added
DidChangeWorkspaceFolders ==
    \E rem \in SUBSET vsFolders, add \in SUBSET (Folders \ vsFolders) :
        /\ rem \cup add # {}
        /\ \E removed \in Orderings(rem), added \in Orderings(add) :
             LET vs == (vsFolders \ rem) \cup add
                 w == onDidChangeWorkspaceFolders([This EXCEPT !.vs = vs], removed, added)
             IN  /\ Commit(w)
                 /\ vsFolders' = vs
                 /\ UNCHANGED <<opened, disposeCalled, disposeResolved>>

\* a WorkspaceFolder reports a crash and asks to be replaced
Replace ==
    \E workspaceFolder \in 1..Len(sessions), transferFileOwnership \in BOOLEAN :
        /\ sessions[workspaceFolder].kind = "client"
        /\ LET w == replace(This, workspaceFolder, transferFileOwnership)
           IN  /\ Commit(w)
               /\ UNCHANGED <<vsFolders, opened, disposeCalled, disposeResolved>>

\* the extension shuts the Workspace down
Dispose ==
    /\ ~disposeCalled
    /\ LET w == dispose(This)
       IN  /\ Commit(w)
           /\ disposeCalled' = TRUE
           /\ UNCHANGED <<vsFolders, opened, disposeResolved>>

\* return Promise.all(promises).then(() => undefined): every WorkspaceFolder that
\* Workspace.dispose() disposed has completed its disposal, and the Thenable resolves
DisposeResolved ==
    /\ disposeCalled
    /\ ~disposeResolved
    /\ disposeResolved' = TRUE
    /\ UNCHANGED <<vsFolders, opened, workspaceFolders, externalWorkspaceFolder,
                   activeWorkspaceFolder, activeDocument, sessions, disposeCalled,
                   handedOver>>

Next ==
    \/ DidOpenTextDocument
    \/ ActiveDocumentChanged
    \/ DidChangeWorkspaceFolders
    \/ Replace
    \/ Dispose
    \/ DisposeResolved

Spec == Init /\ [][Next]_vars

-----------------------------------------------------------------------------
(* Vocabulary of the properties *)

Sessions == 1..Len(sessions)
Tracked(s) == SeqToSet(sessions[s].TrackedDocuments)
TrackersOf(d) == {s \in Sessions : d \in Tracked(s)}
IsDisposed(s) == sessions[s].disposed > 0
IsPlaceholder(s) == sessions[s].kind = "null"

\* resolveOwner(uri) as it answers in the current state
resolveOwner(uri) == getWorkspaceFolderFor(This, uri).ret

\* the folder keys of the registry (every key but the sentinel one)
FolderKeys == {asFolder(f) : f \in Folders}

\* the step taken is the one that turns the Workspace into w
NextIs(w) ==
    /\ workspaceFolders' = w.wf
    /\ externalWorkspaceFolder' = w.ext
    /\ activeWorkspaceFolder' = w.act
    /\ activeDocument' = w.adoc
    /\ sessions' = w.ss
    /\ vsFolders' = w.vs
    /\ opened' = opened
    /\ disposeCalled' = disposeCalled

\* the Workspace after the step
ThisNext ==
    [wf |-> workspaceFolders', ext |-> externalWorkspaceFolder',
     act |-> activeWorkspaceFolder', adoc |-> activeDocument',
     ss |-> sessions', vs |-> vsFolders', log |-> << >>, threw |-> FALSE, ret |-> Undefined]

TrackedNext(s) == SeqToSet(sessions'[s].TrackedDocuments)

-----------------------------------------------------------------------------
(* C1 *)

-----------------------------------------------------------------------------
(* C2 *)

\* C2: before the Workspace is disposed, every document that has been opened is in
\* the tracked set of at least one WorkspaceFolder that has not been disposed.  It
\* is stated here for the runs in which no replace with transferFileOwnership =
\* false has happened (no placeholder exists), where every hand-over is a transfer.
C2_NeverOrphaned ==
    (~disposeCalled /\ \A s \in Sessions : ~IsPlaceholder(s))
        => \A d \in opened : \E s \in TrackersOf(d) : ~IsDisposed(s)

-----------------------------------------------------------------------------
(* C3 *)

\* the folders the step removes whose key holds a WorkspaceFolder
RemovedWithSession ==
    {f \in vsFolders \ vsFolders' : MapHas(workspaceFolders, asFolder(f))}

\* C3: after a folder-removal event (before the Workspace is disposed) every
\* document the removed WorkspaceFolder tracked is in the tracked set of exactly
\* one WorkspaceFolder, which has not been disposed and is the one resolveOwner
\* now returns for it, and the removed WorkspaceFolder tracks nothing.
C3_TransferComplete ==
    [][ ~disposeCalled =>
          \A f \in RemovedWithSession :
              /\ TrackedNext(workspaceFolders[asFolder(f)]) = {}
              /\ \A d \in Tracked(workspaceFolders[asFolder(f)]) :
                    /\ Cardinality({t \in 1..Len(sessions') : d \in TrackedNext(t)}) = 1
                    /\ \A t \in 1..Len(sessions') :
                          d \in TrackedNext(t) =>
                              /\ sessions'[t].disposed = 0
                              /\ t = getWorkspaceFolderFor(ThisNext, d).ret
      ]_vars

-----------------------------------------------------------------------------
(* C4 *)

\* C4: between events, every WorkspaceFolder that tracks a document is the one
\* resolveOwner returns for that document.  It is stated here for the runs in
\* which nothing has been disposed yet (no folder removed, nothing replaced), so
\* that only document-open, active-document and folder-added events have happened.
C4_TrackerIsOwner ==
    (~disposeCalled /\ \A s \in Sessions : ~IsDisposed(s) /\ ~IsPlaceholder(s))
        => \A d \in Documents : \A s \in TrackersOf(d) : resolveOwner(d) = s

-----------------------------------------------------------------------------
(* C5 *)

\* C5: resolving the same uri twice in a row returns the same WorkspaceFolder
\* both times, and the second resolution leaves the registry as the first left it.
C5_ResolveIdempotent ==
    \A uri \in Uris :
        /\ getWorkspaceFolderFor(getWorkspaceFolderFor(This, uri), uri).ret
               = getWorkspaceFolderFor(This, uri).ret
        /\ getWorkspaceFolderFor(getWorkspaceFolderFor(This, uri), uri).wf
               = getWorkspaceFolderFor(This, uri).wf

\* an open folder has no WorkspaceFolder registered, so that the first
\* resolution creates one and the second has to find it
C5_Witness ==
    /\ ~disposeCalled
    /\ \E uri \in Documents :
          /\ getWorkspaceFolder(vsFolders, uri) # NoUri
          /\ ~MapHas(workspaceFolders, asFolder(getWorkspaceFolder(vsFolders, uri)))
          /\ getWorkspaceFolderFor(This, uri).ret = Len(sessions) + 1
          /\ getWorkspaceFolderFor(getWorkspaceFolderFor(This, uri), uri).ret
                 = Len(sessions) + 1

-----------------------------------------------------------------------------
(* C6 *)

\* C6: in every reachable state resolveOwner returns a WorkspaceFolder for every
\* uri: the external one when no open folder contains the uri, and otherwise the
\* one registered under the key of the folder that contains it.
C6_ResolveAlwaysSucceeds ==
    \A uri \in Uris :
        /\ getWorkspaceFolderFor(This, uri).ret \in 1..Len(getWorkspaceFolderFor(This, uri).ss)
        /\ getWorkspaceFolder(vsFolders, uri) # NoUri =>
               getWorkspaceFolderFor(This, uri).ret
                   = MapGet(getWorkspaceFolderFor(This, uri).wf,
                            asFolder(getWorkspaceFolder(vsFolders, uri)))

-----------------------------------------------------------------------------
(* C7 *)

\* C7: resolveOwner never returns a WorkspaceFolder that has been disposed.
C7_NoDisposedOwner ==
    \A uri \in Uris :
        resolveOwner(uri) \in Sessions => ~IsDisposed(resolveOwner(uri))

-----------------------------------------------------------------------------
(* C8 *)

\* C8: before the Workspace is disposed the registry has an entry under the
\* sentinel key, and it holds the WorkspaceFolder that resolveOwner returns for
\* documents outside all folders.
C8_SentinelEntry ==
    ~disposeCalled =>
        /\ MapHas(workspaceFolders, rootWorkspaceFolderKey)
        /\ workspaceFolders[rootWorkspaceFolderKey] = externalWorkspaceFolder

-----------------------------------------------------------------------------
(* C9 *)

\* C9: replace(s, true) on a WorkspaceFolder s registered under a folder key K
\* leaves under K a fresh WorkspaceFolder that is not disposed, returns it, and
\* that one tracks exactly the documents s tracked before the call.
C9_ReplaceRecreates ==
    [][ \A s \in Sessions :
          (/\ ~disposeCalled
           /\ sessions[s].kind = "client"
           /\ keyOf(This, s) \in FolderKeys
           /\ NextIs(replace(This, s, TRUE)))
          => /\ MapHas(workspaceFolders', keyOf(This, s))
             /\ workspaceFolders'[keyOf(This, s)] > Len(sessions)
             /\ sessions'[workspaceFolders'[keyOf(This, s)]].disposed = 0
             /\ replace(This, s, TRUE).ret = workspaceFolders'[keyOf(This, s)]
             /\ TrackedNext(workspaceFolders'[keyOf(This, s)]) = Tracked(s)
      ]_vars

-----------------------------------------------------------------------------
(* C10 *)

\* the folder keys that hold a placeholder
PlaceholderKeys ==
    {k \in FolderKeys : MapHas(workspaceFolders, k) /\ IsPlaceholder(workspaceFolders[k])}

\* the step leaves the placeholder under key k where it is, and every document
\* whose folder has that key resolves to it
PlaceholderStays(k) ==
    /\ MapHas(workspaceFolders', k)
    /\ workspaceFolders'[k] = workspaceFolders[k]
    /\ \A d \in Documents :
          (/\ getWorkspaceFolder(vsFolders', d) # NoUri
           /\ asFolder(getWorkspaceFolder(vsFolders', d)) = k)
          => /\ getWorkspaceFolderFor(ThisNext, d).ret = workspaceFolders[k]
             /\ getWorkspaceFolderFor(ThisNext, d).ss = sessions'

\* replace(s, false) on a WorkspaceFolder registered under a folder key installs
\* a new placeholder with an empty tracked set under that key
PlaceholderInstalled ==
    \A s \in Sessions :
        (/\ sessions[s].kind = "client"
         /\ keyOf(This, s) \in FolderKeys
         /\ NextIs(replace(This, s, FALSE)))
        => /\ MapHas(workspaceFolders', keyOf(This, s))
           /\ workspaceFolders'[keyOf(This, s)] > Len(sessions)
           /\ sessions'[workspaceFolders'[keyOf(This, s)]].kind = "null"
           /\ TrackedNext(workspaceFolders'[keyOf(This, s)]) = {}

\* C10 as stated: the placeholder installed by replace(s, false) under folder key
\* K stays there, and every document of that folder resolves to it without a
\* WorkspaceFolder being created, until a folder-removal event for K.
C10_PlaceholderUntilRemoval ==
    [][ /\ PlaceholderInstalled
        /\ \A k \in PlaceholderKeys :
              (\E f \in vsFolders' : asFolder(f) = k) => PlaceholderStays(k)
      ]_vars

\* C10 as amended: ... until a folder-removal event for K or the disposal of the
\* whole Workspace removes it.
C10_PlaceholderUntilRemovalOrDispose ==
    [][ /\ PlaceholderInstalled
        /\ \A k \in PlaceholderKeys :
              ((\E f \in vsFolders' : asFolder(f) = k) /\ disposeCalled' = disposeCalled)
                  => PlaceholderStays(k)
      ]_vars

\* a placeholder is registered under a folder key, and a document of that folder
\* that was opened since resolved to it: nothing tracks the document and no
\* WorkspaceFolder was created for it
C10_Witness ==
    /\ ~disposeCalled
    /\ PlaceholderKeys # {}
    /\ \E d \in opened :
          /\ TrackersOf(d) = {}
          /\ resolveOwner(d) \in Sessions
          /\ IsPlaceholder(resolveOwner(d))
          /\ MapGet(workspaceFolders, asFolder(getWorkspaceFolder(vsFolders, d)))
                 = resolveOwner(d)

-----------------------------------------------------------------------------
(* C11 *)

\* the activate() and deactivate() calls among the calls a handler made
ActivationCalls(w) == SelectSeq(w.log, LAMBDA c : c.m \in {"activate", "deactivate"})

\* the handler run r notified the owner, and did what the protocol asks for the
\* previously active WorkspaceFolder `previous`
ProtocolFollowed(r, owner, previous, document) ==
    /\ Call("activeDocumentChanged", owner, document) \in SeqToSet(r.log)
    /\ IF owner # previous
       THEN /\ ActivationCalls(r) = << Call("activate", owner, NoUri),
                                       Call("deactivate", previous, NoUri) >>
            /\ r.act = owner
       ELSE /\ ActivationCalls(r) = << >>
            /\ r.act = previous

\* C11: whenever the active document changes to an opened document, the
\* WorkspaceFolder it resolves to is notified of it; when that one is not the
\* active WorkspaceFolder, activate() is called on it, then deactivate() on the
\* previously active one, and the active WorkspaceFolder becomes the new one; when
\* it is the active one, neither activate() nor deactivate() is called.
C11_ActiveDocumentProtocol ==
    \A document \in opened :
        ProtocolFollowed(activeDocumentChanged(This, document),
                         getWorkspaceFolderFor(This, document).ret,
                         activeWorkspaceFolder, document)

-----------------------------------------------------------------------------
(* C12 *)

\* the Active lifecycle state: activate() called, and since then neither
\* deactivate() nor dispose()
Active(s) == sessions[s].activated /\ ~IsDisposed(s)

\* exactly one WorkspaceFolder is Active, the one activeWorkspaceFolder designates
OneActive ==
    /\ activeWorkspaceFolder \in Sessions
    /\ {s \in Sessions : Active(s)} = {activeWorkspaceFolder}

\* C12: when exactly one WorkspaceFolder is Active and it is the active one, this
\* is still so after the next active-document, document-open, folder-change or
\* replace event.
C12_ExactlyOneActive ==
    [][ (OneActive /\ ~disposeCalled') => OneActive' ]_vars

-----------------------------------------------------------------------------
(* C13 *)

\* the WorkspaceFolder was created by getWorkspaceFolderFor: it is the only place
\* that offers the object it creates to the providers (the constructor does not)
CreatedByResolution(s) == sessions[s].offered

Touched(f) ==
    \/ f \in vsFolders' \ vsFolders
    \/ \E d \in Documents :
          /\ getWorkspaceFolder(vsFolders', d) = f
          /\ \/ d \in opened' \ opened
             \/ \E i \in 1..Len(handedOver') : handedOver'[i].d = d
             \/ /\ activeDocument' = d
                /\ MapHas(workspaceFolders', asFolder(f))
                /\ \/ activeWorkspaceFolder' = workspaceFolders'[asFolder(f)]
                   \/ sessions'[workspaceFolders'[asFolder(f)]].activated

\* the folder keys the step adds to the registry
KeysCreated == {k \in FolderKeys : ~MapHas(workspaceFolders, k) /\ MapHas(workspaceFolders', k)}

\* the folder keys under which the step puts another WorkspaceFolder
KeysChanged ==
    {k \in FolderKeys : /\ MapHas(workspaceFolders, k)
                        /\ MapHas(workspaceFolders', k)
                        /\ workspaceFolders'[k] # workspaceFolders[k]}

-----------------------------------------------------------------------------
(* C14 *)

\* C14: at the moment the Thenable returned by Workspace.dispose() resolves, the
\* registry is empty and dispose() has been called on every WorkspaceFolder there
\* is, whatever events were delivered since the call of Workspace.dispose().
C14_DisposeQuiesces ==
    [][ (disposeResolved' /\ ~disposeResolved) =>
            /\ workspaceFolders' = EmptyMap
            /\ \A s \in 1..Len(sessions') : sessions'[s].disposed > 0
      ]_vars

-----------------------------------------------------------------------------
(* C15 *)

\* the folder the editor associates with the document is the root the
\* WorkspaceFolder is bound to, or there is no such folder and no such root
RootMatches(s, document) ==
    IF getWorkspaceFolder(vsFolders, document) = NoUri
    THEN sessions[s].RootUri = NoUri
    ELSE sessions[s].RootUri = getWorkspaceFolder(vsFolders, document)

-----------------------------------------------------------------------------
(* C16 *)

\* the WorkspaceFolders on which the step calls dispose()
DisposedInStep == {s \in Sessions : sessions'[s].disposed > sessions[s].disposed}

\* the WorkspaceFolders the registry holds after the step
RegisteredNext == {workspaceFolders'[k] : k \in DOMAIN workspaceFolders'}

\* C16: a WorkspaceFolder on which a folder removal or a replace calls dispose()
\* is then no longer in the registry and tracks nothing; and in a replace the
\* dispose() is the last call made, after the hand-overs and the recomputation
\* of the active WorkspaceFolder.
C16_DisposedLast ==
    [][ disposeCalled' = disposeCalled =>
            \A s \in DisposedInStep :
                /\ s \notin RegisteredNext
                /\ TrackedNext(s) = {}
                /\ \A transferFileOwnership \in BOOLEAN :
                      NextIs(replace(This, s, transferFileOwnership)) =>
                          replace(This, s, transferFileOwnership).log
                                  [Len(replace(This, s, transferFileOwnership).log)]
                              = Call("dispose", s, NoUri)
      ]_vars

-----------------------------------------------------------------------------
(* C17 *)

\* C17: before the Workspace is disposed, and so after every folder removal and
\* every replace, activeWorkspaceFolder designates a WorkspaceFolder that has not
\* been disposed.
C17_ActiveNeverDisposed ==
    ~disposeCalled =>
        /\ activeWorkspaceFolder \in Sessions
        /\ ~IsDisposed(activeWorkspaceFolder)

-----------------------------------------------------------------------------
(* C18 *)

\* the handler run r called takeOwnership once for each of docs, in their order,
\* each time on the WorkspaceFolder the document resolves to, and never on old
HandedOverOnce(r, old, docs) ==
    /\ Len(TakeOwnershipCalls(r)) = Len(docs)
    /\ \A i \in 1..Len(docs) :
          /\ TakeOwnershipCalls(r)[i].d = docs[i]
          /\ TakeOwnershipCalls(r)[i].s = getWorkspaceFolderFor(r, docs[i]).ret
          /\ TakeOwnershipCalls(r)[i].s # old

\* the folder-change event in which the editor removes the one folder f
RemovalOf(f) == onDidChangeWorkspaceFolders([This EXCEPT !.vs = vsFolders \ {f}], <<f>>, << >>)

\* C18: a replace with transferFileOwnership = true, and the removal of a folder,
\* call takeOwnership exactly once for each document the old WorkspaceFolder
\* tracked, on the WorkspaceFolder the document resolves to, which is never the
\* old one.
C18_HandOverToAnother ==
    [][ /\ \A s \in Sessions :
              (/\ sessions[s].kind = "client"
               /\ keyOf(This, s) # NoUri
               /\ NextIs(replace(This, s, TRUE)))
              => HandedOverOnce(replace(This, s, TRUE), s, sessions[s].TrackedDocuments)
        /\ \A f \in vsFolders :
              (/\ MapHas(workspaceFolders, asFolder(f))
               /\ NextIs(RemovalOf(f)))
              => HandedOverOnce(RemovalOf(f), workspaceFolders[asFolder(f)],
                                sessions[workspaceFolders[asFolder(f)]].TrackedDocuments)
      ]_vars

-----------------------------------------------------------------------------
(* C19 *)

\* C19: every WorkspaceFolder that getWorkspaceFolderFor returns, and every one
\* in the registry (those forEach visits) other than a placeholder, has been
\* offered to the custom configuration providers.
C19_OfferedBeforeUse ==
    /\ \A uri \in Uris :
          getWorkspaceFolderFor(This, uri).ret \in 1..Len(getWorkspaceFolderFor(This, uri).ss)
              => \/ getWorkspaceFolderFor(This, uri).ss[getWorkspaceFolderFor(This, uri).ret].offered
                 \/ getWorkspaceFolderFor(This, uri).ss[getWorkspaceFolderFor(This, uri).ret].kind = "null"
    /\ \A k \in DOMAIN workspaceFolders :
          sessions[workspaceFolders[k]].offered \/ IsPlaceholder(workspaceFolders[k])

-----------------------------------------------------------------------------
(* C20 *)

\* in the calls a handler made, a WorkspaceFolder that was created and then left
\* alone (an added folder, resolved eagerly) is created after every hand-over and
\* every dispose()
RemovalsFirst(log) ==
    \A i \in 1..Len(log) : \A j \in 1..Len(log) :
        (/\ i < j
         /\ log[i].m = "onRegisterCustomConfigurationProvider"
         /\ log[j].m \in {"takeOwnership", "dispose"})
        => /\ log[i + 1].s = log[i].s
           /\ log[i + 1].m \in {"takeOwnership", "activeDocumentChanged"}

\* what the registry must hold once the handler run r has processed the event
BatchProcessed(r) ==
    /\ ~r.threw
    /\ RemovalsFirst(r.log)
    /\ \A f \in vsFolders \ vsFolders' :
          /\ ~MapHas(r.wf, asFolder(f))
          /\ MapHas(workspaceFolders, asFolder(f))
                => r.ss[workspaceFolders[asFolder(f)]].disposed > 0
    /\ \A f \in vsFolders' \ vsFolders :
          /\ MapHas(r.wf, asFolder(f))
          /\ r.ss[r.wf[asFolder(f)]].disposed = 0

\* C20: a folder-change event deletes the entry of every removed folder, hands
\* its documents over and disposes its WorkspaceFolder before it resolves any
\* added folder, and after it every added folder has a WorkspaceFolder in the
\* registry.
C20_RemovalsBeforeAdditions ==
    [][ vsFolders' # vsFolders =>
            \E removed \in Orderings(vsFolders \ vsFolders') :
              \E added \in Orderings(vsFolders' \ vsFolders) :
                /\ NextIs(onDidChangeWorkspaceFolders([This EXCEPT !.vs = vsFolders'],
                                                      removed, added))
                /\ BatchProcessed(onDidChangeWorkspaceFolders(
                                      [This EXCEPT !.vs = vsFolders'], removed, added))
      ]_vars

-----------------------------------------------------------------------------
(* C21 *)

\* the WorkspaceFolders the registry holds
Registered == {workspaceFolders[k] : k \in DOMAIN workspaceFolders}

\* C21: replace on a WorkspaceFolder that the registry does not hold returns
\* null, makes no call (so it does not dispose the WorkspaceFolder), and leaves
\* the registry, every tracked set and the active WorkspaceFolder as they are.
C21_ReplaceUnregistered ==
    \A s \in Sessions : \A transferFileOwnership \in BOOLEAN :
        (sessions[s].kind = "client" /\ s \notin Registered) =>
            /\ replace(This, s, transferFileOwnership).ret = Undefined
            /\ replace(This, s, transferFileOwnership).log = << >>
            /\ replace(This, s, transferFileOwnership).wf = workspaceFolders
            /\ replace(This, s, transferFileOwnership).ss = sessions
            /\ replace(This, s, transferFileOwnership).act = activeWorkspaceFolder
            /\ replace(This, s, transferFileOwnership).adoc = activeDocument

\* a WorkspaceFolder that a replace took out of the registry while it tracked a
\* document is still known to its caller, and a placeholder holds its key
C21_Witness ==
    /\ ~disposeCalled
    /\ PlaceholderKeys # {}
    /\ \E s \in Sessions :
          /\ sessions[s].kind = "client"
          /\ s \notin Registered
          /\ IsDisposed(s)
          /\ Tracked(s) # {}

-----------------------------------------------------------------------------
(* C22 *)

\* C22: dispose() is called at most once on any WorkspaceFolder.
C22_DisposedAtMostOnce ==
    \A s \in Sessions : sessions[s].disposed <= 1

\* the Workspace has been disposed after a replace and a folder removal: every
\* WorkspaceFolder has been disposed, among them a placeholder and one that was
\* removed with its folder
C22_Witness ==
    /\ disposeCalled
    /\ Len(sessions) = MaxSessions
    /\ \A s \in Sessions : sessions[s].disposed = 1
    /\ \E s \in Sessions : IsPlaceholder(s)
    /\ vsFolders = {}

====
